---- MODULE Spec2Model ----
(***************************************************************************)
(* Model of nsqd/stats.go: NSQD.GetStats, the concurrent stats-snapshot    *)
(* aggregator of the broker -> topic -> channel -> client hierarchy.       *)
(*                                                                         *)
(* Every goroutine of a GetStats call is a process of the model: the       *)
(* caller (one per call id), one topic task per selected topic object and  *)
(* one channel task per selected channel object.  The broker's writers     *)
(* (topic/channel/client creation and removal, counter updates, pause      *)
(* flags) live outside stats.go and are modelled from the specification.   *)
(*                                                                         *)
(* Names are byte strings (sequences of bytes); the empty string <<>> is   *)
(* Go's "" and means "no filter".                                          *)
(***************************************************************************)
EXTENDS Integers, Sequences, FiniteSets, TLC

\* ------------------------------------------------------------------ bounds
MaxCalls     == 2   \* GetStats callers (concurrent calls in SpecConc)
MaxTopics    == 2   \* topic objects ever allocated
MaxChannels  == 2   \* channel objects ever allocated
MaxClients   == 1   \* client ids
MaxWriterOps == 1   \* writer operations in one behaviour
MaxSamples == 2     \* samples in one latency stream

CallIds   == 1..MaxCalls
TopicIds  == 1..MaxTopics
ChanIds   == 1..MaxChannels
ClientIds == 1..MaxClients
BufCap == 20        \* len(ms.PauseNs), 256 in the Go runtime
MaxGCRuns == 22     \* GC runs in one behaviour
MaxPauseChanges == 2 \* times the pause duration changes from one run to the next
PauseVals == {999, 1000, 2500}  \* GC pause durations, in nanoseconds

\* The names topics and channels can carry; <<1, 2>> sorts between <<1>> and
\* <<2>> byte-wise although it is the longest.
Names == {<<1>>, <<1, 2>>, <<2>>}
Empty == <<>>
Filters == Names \cup {Empty}

\* Names of the objects a broker holds when a behaviour starts, by object id:
\* allocation order is not name order.
InitNames == <<<<2>>, <<1, 2>>, <<1>>>>

VARIABLES
    \* ---- broker-owned state (read-only for GetStats)
    topicMap,       \* n.topicMap: topic name -> topic object id
    topicObjs,      \* heap of Topic objects: name, channelMap, messageCount, paused
    chanObjs,       \* heap of Channel objects: name, clients, messageCount, paused
    nLock,          \* n.RWMutex: readers (call ids) and writer state
    tLock,          \* t.RWMutex of every topic object
    cLock,          \* c.RWMutex of every channel object
    \* ---- the writer (spec-modelled environment)
    wpc,            \* "idle" | "waiting" | "held"
    wtarget,        \* the lock the writer waits for or holds
    budget,         \* writer operations left
    args,           \* the <<topic, channel>> argument pairs callers pass
    \* ---- GetStats caller, per call id
    pc,             \* position of the caller
    topic,          \* argument: topic filter
    channel,        \* argument: channel filter
    realTopics,     \* copied topic references
    topics,         \* accumulated / returned []TopicStats
    topicsWG,       \* topicsWG counter
    topicsMutex,    \* topicsMutex holder (0: free, else topic id of the task)
    \* ---- topic task, per call id and topic object
    tpc,
    realChannels,
    channels,
    channelsWG,
    channelsMutex,
    ts,             \* the TopicStats built at line 219
    \* ---- channel task, per call id and channel object
    cpc,
    clients,        \* copied client snapshots
    cs,             \* the ChannelStats built at line 207
    \* ---- history of what each goroutine could see at its lock acquisition
    callView,       \* per call: n.topicMap when GetStats was invoked
    nView,          \* per call: n.topicMap when n.RLock() returned
    tView,          \* per topic task: t.channelMap when t.RLock() returned,
                    \*   and whether t was still in n.topicMap then
    cView,          \* per channel task: c.clients when c.RLock() returned,
                    \*   and whether c was still in its topic's channelMap then
    during,         \* per call: the memberships the broker went through
                    \*   between the invocation and the return
    aggView,        \* per topic task: t.channelMap and the latency streams of
                    \*   its channels when NewTopicStats ran
    \* ---- the Go runtime and getMemStats
    ms,             \* runtime.MemStats: PauseNs (circular buffer) and NumGC
    pauseHist,      \* history: every GC pause so far, oldest first
    gcPauses,       \* getMemStats: the sorted copy of the pauses
    memSample       \* getMemStats: the returned memStats

brokerVars == <<topicMap, topicObjs, chanObjs>>
lockVars   == <<nLock, tLock, cLock>>
writerVars == <<wpc, wtarget, budget>>
callVars   == <<pc, topic, channel, realTopics, topics, topicsWG, topicsMutex>>
ttaskVars  == <<tpc, realChannels, channels, channelsWG, channelsMutex, ts>>
ctaskVars  == <<cpc, clients, cs>>
viewVars   == <<callView, nView, tView, cView, during, aggView>>
statsVars  == <<brokerVars, lockVars, writerVars, args, callVars, ttaskVars, ctaskVars, viewVars>>
memVars    == <<ms, pauseHist, gcPauses, memSample>>
vars == <<statsVars, memVars>>

\* ------------------------------------------------------------- helpers
Range(f) == {f[x] : x \in DOMAIN f}

Front(s) == SubSeq(s, 1, Len(s) - 1)

\* A comparator that orders by length before it compares bytes.
StrLessShorterFirst(a, b) ==
    \/ Len(a) < Len(b)
    \/ /\ Len(a) = Len(b)
       /\ \E p \in 1..Len(a) :
            a[p] < b[p] /\ \A q \in 1..(p - 1) : a[q] = b[q]

\* Go's < on strings: byte-wise lexicographic order, a proper prefix first.
RECURSIVE StrLess(_, _)
StrLess(a, b) ==
    IF b = <<>> THEN FALSE
    ELSE IF a = <<>> THEN TRUE
    ELSE IF Head(a) # Head(b) THEN Head(a) < Head(b)
    ELSE StrLess(Tail(a), Tail(b))

\* TopicStatsByTopicName.Less
TopicStatsLess(a, b) == StrLess(a.topic_name, b.topic_name)

\* ChannelStatsByChannelName.Less
ChannelStatsLess(a, b) == StrLess(a.channel_name, b.channel_name)

\* sort.Sort on a short slice is an insertion sort driven by Less.
RECURSIVE InsertTopicStats(_, _)
InsertTopicStats(x, s) ==
    IF s = <<>> THEN <<x>>
    ELSE IF TopicStatsLess(x, s[Len(s)])
         THEN Append(InsertTopicStats(x, Front(s)), s[Len(s)])
         ELSE Append(s, x)

RECURSIVE SortTopicStats(_)
SortTopicStats(s) ==
    IF s = <<>> THEN <<>>
    ELSE InsertTopicStats(s[Len(s)], SortTopicStats(Front(s)))

RECURSIVE InsertChannelStats(_, _)
InsertChannelStats(x, s) ==
    IF s = <<>> THEN <<x>>
    ELSE IF ChannelStatsLess(x, s[Len(s)])
         THEN Append(InsertChannelStats(x, Front(s)), s[Len(s)])
         ELSE Append(s, x)

RECURSIVE SortChannelStats(_)
SortChannelStats(s) ==
    IF s = <<>> THEN <<>>
    ELSE InsertChannelStats(s[Len(s)], SortChannelStats(Front(s)))

\* A read lock that does not exclude the writer.
CanRLockAlways(l) == TRUE

\* sync.RWMutex: a reader enters unless a writer holds the lock or waits for it.
FreeLock == [r |-> {}, w |-> "free"]
CanRLock(l) == l.w = "free"
RLocked(l, k) == [l EXCEPT !.r = @ \cup {k}]
RUnlocked(l, k) == [l EXCEPT !.r = @ \ {k}]

\* Merge of latency streams; a stream is the number of samples it holds.
RECURSIVE Merge(_, _)
Merge(S, stream) ==
    IF S = {} THEN 0
    ELSE LET j == CHOOSE x \in S : TRUE
         IN  stream[j] + Merge(S \ {j}, stream)

\* t.AggregateChannelE2eProcessingLatency(): the merge of the streams of the
\* channels of t, read from t when it is called.
AggregateChannelE2eProcessingLatency(t) ==
    Merge(Range(topicObjs[t].channelMap), [j \in DOMAIN chanObjs |-> chanObjs[j].e2e])

\* NewTopicStats with the MessageCount field left at its zero value.
NewTopicStatsNoCount(t, chans) ==
    [topic_name    |-> topicObjs[t].name,
     channels      |-> chans,
     message_count |-> 0,
     paused        |-> topicObjs[t].paused,
     e2e_processing_latency |-> AggregateChannelE2eProcessingLatency(t)]

\* NewTopicStats without the aggregate.
NewTopicStatsNoAggregate(t, chans) ==
    [topic_name    |-> topicObjs[t].name,
     channels      |-> chans,
     message_count |-> topicObjs[t].messageCount,
     paused        |-> topicObjs[t].paused,
     e2e_processing_latency |-> 0]

\* NewTopicStats: name, channel list, the atomically loaded counters and the
\* latency aggregate of the topic.
NewTopicStats(t, chans) ==
    [topic_name    |-> topicObjs[t].name,
     channels      |-> chans,
     message_count |-> topicObjs[t].messageCount,
     paused        |-> topicObjs[t].paused,
     e2e_processing_latency |-> AggregateChannelE2eProcessingLatency(t)]

\* NewChannelStats: name, client list and the atomically loaded counters.
NewChannelStats(c, cl) ==
    [channel_name  |-> chanObjs[c].name,
     message_count |-> chanObjs[c].messageCount,
     clients       |-> cl,
     paused        |-> chanObjs[c].paused,
     e2e_processing_latency |-> chanObjs[c].e2e]

NoTopicStats ==
    [topic_name |-> Empty, channels |-> <<>>, message_count |-> 0, paused |-> FALSE,
     e2e_processing_latency |-> 0]
NoChannelStats ==
    [channel_name |-> Empty, message_count |-> 0, clients |-> {}, paused |-> FALSE,
     e2e_processing_latency |-> 0]

NoMemStats == [gc_pause_usec_100 |-> 0, gc_pause_usec_99 |-> 0,
               gc_pause_usec_95 |-> 0, gc_total_runs |-> 0, taken |-> FALSE]

\* ---------------------------------------------------------------- Init
NewTopic(name) == [name |-> name, channelMap |-> <<>>, messageCount |-> 0, paused |-> FALSE]
NewChannel(name) ==
    [name |-> name, clients |-> {}, messageCount |-> 0, paused |-> FALSE, e2e |-> 0]

\* A broker holding nT topics and the channels 1..nC, channel j in topic
\* par[j]; every other channel starts with the clients cl connected, every
\* channel with one latency sample in its stream.
InitBroker(nT, nC, par, cl) ==
    /\ topicMap = [n \in {InitNames[i] : i \in 1..nT} |->
                     CHOOSE i \in 1..nT : InitNames[i] = n]
    /\ chanObjs = [j \in 1..nC |->
                     [NewChannel(InitNames[j]) EXCEPT
                        !.clients = IF j % 2 = 1 THEN cl ELSE {},
                        !.e2e = 1]]
    /\ topicObjs = [i \in 1..nT |->
                     [NewTopic(InitNames[i]) EXCEPT !.channelMap =
                        [n \in {InitNames[j] : j \in {x \in 1..nC : par[x] = i}} |->
                           CHOOSE j \in 1..nC : InitNames[j] = n]]]

InitRest(callers) ==
    /\ nLock = FreeLock
    /\ tLock = [i \in TopicIds |-> FreeLock]
    /\ cLock = [j \in ChanIds |-> FreeLock]
    /\ wpc = "idle"
    /\ wtarget = <<"none", 0>>
    /\ pc = [k \in CallIds |-> IF k \in callers THEN "idle" ELSE "off"]
    /\ topic = [k \in CallIds |-> Empty]
    /\ channel = [k \in CallIds |-> Empty]
    /\ realTopics = [k \in CallIds |-> {}]
    /\ topics = [k \in CallIds |-> <<>>]
    /\ topicsWG = [k \in CallIds |-> 0]
    /\ topicsMutex = [k \in CallIds |-> 0]
    /\ tpc = [k \in CallIds |-> [i \in TopicIds |-> "none"]]
    /\ realChannels = [k \in CallIds |-> [i \in TopicIds |-> {}]]
    /\ channels = [k \in CallIds |-> [i \in TopicIds |-> <<>>]]
    /\ channelsWG = [k \in CallIds |-> [i \in TopicIds |-> 0]]
    /\ channelsMutex = [k \in CallIds |-> [i \in TopicIds |-> 0]]
    /\ ts = [k \in CallIds |-> [i \in TopicIds |-> NoTopicStats]]
    /\ cpc = [k \in CallIds |-> [j \in ChanIds |-> "none"]]
    /\ clients = [k \in CallIds |-> [j \in ChanIds |-> {}]]
    /\ cs = [k \in CallIds |-> [j \in ChanIds |-> NoChannelStats]]
    /\ callView = [k \in CallIds |-> <<>>]
    /\ nView = [k \in CallIds |-> <<>>]
    /\ tView = [k \in CallIds |-> [i \in TopicIds |-> [map |-> <<>>, live |-> FALSE]]]
    /\ cView = [k \in CallIds |-> [j \in ChanIds |-> [clients |-> {}, live |-> FALSE]]]
    /\ during = [k \in CallIds |-> {}]
    /\ aggView = [k \in CallIds |-> [i \in TopicIds |-> [map |-> <<>>, e2e |-> <<>>]]]
    /\ ms = [PauseNs |-> [x \in 1..BufCap |-> 0], NumGC |-> 0]
    /\ pauseHist = <<>>
    /\ gcPauses = <<>>
    /\ memSample = NoMemStats

InitTopicCounts == 0..(IF MaxTopics < Len(InitNames) THEN MaxTopics ELSE Len(InitNames))
InitChanCounts  == 0..(IF MaxChannels < Len(InitNames) THEN MaxChannels ELSE Len(InitNames))

\* A broker of nT \in nTs topics and nC \in nCs channels with clients from
\* cls, a writer with b operations and the given callers, who pass argument
\* pairs from a.
InitWith(nTs, nCs, cls, b, callers, a) ==
    /\ \E nT \in nTs :
         \E nC \in (IF nT = 0 THEN {0} ELSE nCs) :
           \E par \in [1..nC -> 1..nT] : \E cl \in cls :
             InitBroker(nT, nC, par, cl)
    /\ budget = b
    /\ args = a
    /\ InitRest(callers)

\* One GetStats call, any filters, any initial broker, MaxWriterOps writes.
Init == InitWith(InitTopicCounts, InitChanCounts, {ClientIds}, MaxWriterOps,
                 {1}, Filters \X Filters)

\* ------------------------------------------------------------- writers
\* The broker's write paths are not part of stats.go.  One writer performs up
\* to MaxWriterOps operations; a membership change takes the write lock of the
\* map it changes (announce, acquire once the readers have left, change and
\* release), counters and pause flags are lock-free atomics.
LiveChannels == UNION {Range(topicObjs[i].channelMap) : i \in Range(topicMap)}

WriterTargets ==
    {<<"n", 0>>} \cup {<<"t", i>> : i \in Range(topicMap)}
                 \cup {<<"c", j>> : j \in LiveChannels}

SetW(target, w) ==
    /\ nLock' = IF target[1] = "n" THEN [nLock EXCEPT !.w = w] ELSE nLock
    /\ tLock' = IF target[1] = "t" THEN [tLock EXCEPT ![target[2]].w = w] ELSE tLock
    /\ cLock' = IF target[1] = "c" THEN [cLock EXCEPT ![target[2]].w = w] ELSE cLock

Readers(target) ==
    IF target[1] = "n" THEN nLock.r
    ELSE IF target[1] = "t" THEN tLock[target[2]].r
    ELSE cLock[target[2]].r

\* Lock(): announced; from now on new readers of this lock wait.
WriterRequest(target) ==
    /\ wpc = "idle"
    /\ budget > 0
    /\ target \in WriterTargets
    /\ wpc' = "waiting"
    /\ wtarget' = target
    /\ budget' = budget - 1
    /\ SetW(target, "waiting")
    /\ UNCHANGED <<brokerVars, callVars, ttaskVars, ctaskVars, viewVars, args, memVars>>

\* Lock() returns once every reader has left.
WriterAcquire ==
    /\ wpc = "waiting"
    /\ Readers(wtarget) = {}
    /\ wpc' = "held"
    /\ SetW(wtarget, "held")
    /\ UNCHANGED <<wtarget, budget, brokerVars, callVars, ttaskVars, ctaskVars, viewVars, args, memVars>>

\* The topic map and the channel map of every topic object.
Membership(tm, tobjs) ==
    [topicMap |-> tm, channelMap |-> [i \in DOMAIN tobjs |-> tobjs[i].channelMap]]

\* Unlock() after the write; the new membership is one more instant of every
\* call that is under way.
WriterDone ==
    /\ wpc' = "idle"
    /\ wtarget' = <<"none", 0>>
    /\ SetW(wtarget, "free")
    /\ during' = [k \in CallIds |->
                    IF pc[k] \in {"off", "idle", "done"} THEN during[k]
                    ELSE during[k] \cup {Membership(topicMap', topicObjs')}]
    /\ UNCHANGED <<callView, nView, tView, cView, aggView>>
    /\ UNCHANGED <<budget, callVars, ttaskVars, ctaskVars, args, memVars>>

WriterCreateTopic(name) ==
    /\ wpc = "held" /\ wtarget[1] = "n"
    /\ name \notin DOMAIN topicMap
    /\ Len(topicObjs) < MaxTopics
    /\ topicObjs' = Append(topicObjs, NewTopic(name))
    /\ topicMap' = [n \in DOMAIN topicMap \cup {name} |->
                      IF n = name THEN Len(topicObjs) + 1 ELSE topicMap[n]]
    /\ UNCHANGED chanObjs
    /\ WriterDone

WriterDeleteTopic(name) ==
    /\ wpc = "held" /\ wtarget[1] = "n"
    /\ name \in DOMAIN topicMap
    /\ topicMap' = [n \in DOMAIN topicMap \ {name} |-> topicMap[n]]
    /\ UNCHANGED <<topicObjs, chanObjs>>
    /\ WriterDone

WriterCreateChannel(name) ==
    /\ wpc = "held" /\ wtarget[1] = "t"
    /\ name \notin DOMAIN topicObjs[wtarget[2]].channelMap
    /\ Len(chanObjs) < MaxChannels
    /\ chanObjs' = Append(chanObjs, NewChannel(name))
    /\ topicObjs' = [topicObjs EXCEPT ![wtarget[2]].channelMap =
                       [n \in DOMAIN @ \cup {name} |->
                          IF n = name THEN Len(chanObjs) + 1 ELSE @[n]]]
    /\ UNCHANGED topicMap
    /\ WriterDone

WriterDeleteChannel(name) ==
    /\ wpc = "held" /\ wtarget[1] = "t"
    /\ name \in DOMAIN topicObjs[wtarget[2]].channelMap
    /\ topicObjs' = [topicObjs EXCEPT ![wtarget[2]].channelMap =
                       [n \in DOMAIN @ \ {name} |-> @[n]]]
    /\ UNCHANGED <<topicMap, chanObjs>>
    /\ WriterDone

WriterAddClient(c) ==
    /\ wpc = "held" /\ wtarget[1] = "c"
    /\ c \notin chanObjs[wtarget[2]].clients
    /\ chanObjs' = [chanObjs EXCEPT ![wtarget[2]].clients = @ \cup {c}]
    /\ UNCHANGED <<topicMap, topicObjs>>
    /\ WriterDone

WriterRemoveClient(c) ==
    /\ wpc = "held" /\ wtarget[1] = "c"
    /\ c \in chanObjs[wtarget[2]].clients
    /\ chanObjs' = [chanObjs EXCEPT ![wtarget[2]].clients = @ \ {c}]
    /\ UNCHANGED <<topicMap, topicObjs>>
    /\ WriterDone

\* A write path that finds nothing to change (the entity exists already, or
\* is gone) only releases the lock.
WriterRelease ==
    /\ wpc = "held"
    /\ UNCHANGED brokerVars
    /\ WriterDone

\* Lock-free atomics: message counters and pause flags.
WriterPublish(i) ==
    /\ wpc = "idle" /\ budget > 0
    /\ i \in DOMAIN topicObjs
    /\ topicObjs' = [topicObjs EXCEPT ![i].messageCount = @ + 1]
    /\ budget' = budget - 1
    /\ UNCHANGED <<topicMap, chanObjs, wpc, wtarget, lockVars, callVars, ttaskVars, ctaskVars, viewVars, args, memVars>>

WriterDeliver(j) ==
    /\ wpc = "idle" /\ budget > 0
    /\ j \in DOMAIN chanObjs
    /\ chanObjs' = [chanObjs EXCEPT ![j].messageCount = @ + 1]
    /\ budget' = budget - 1
    /\ UNCHANGED <<topicMap, topicObjs, wpc, wtarget, lockVars, callVars, ttaskVars, ctaskVars, viewVars, args, memVars>>

\* A message is finished: one more sample in the channel's latency stream.
WriterFinishMessage(j) ==
    /\ wpc = "idle" /\ budget > 0
    /\ j \in DOMAIN chanObjs
    /\ chanObjs[j].e2e < MaxSamples
    /\ chanObjs' = [chanObjs EXCEPT ![j].e2e = @ + 1]
    /\ budget' = budget - 1
    /\ UNCHANGED <<topicMap, topicObjs, wpc, wtarget, lockVars, callVars, ttaskVars, ctaskVars, viewVars, args, memVars>>

WriterPauseTopic(i) ==
    /\ wpc = "idle" /\ budget > 0
    /\ i \in DOMAIN topicObjs
    /\ topicObjs' = [topicObjs EXCEPT ![i].paused = ~@]
    /\ budget' = budget - 1
    /\ UNCHANGED <<topicMap, chanObjs, wpc, wtarget, lockVars, callVars, ttaskVars, ctaskVars, viewVars, args, memVars>>

WriterPauseChannel(j) ==
    /\ wpc = "idle" /\ budget > 0
    /\ j \in DOMAIN chanObjs
    /\ chanObjs' = [chanObjs EXCEPT ![j].paused = ~@]
    /\ budget' = budget - 1
    /\ UNCHANGED <<topicMap, topicObjs, wpc, wtarget, lockVars, callVars, ttaskVars, ctaskVars, viewVars, args, memVars>>

Writer ==
    \/ \E target \in {<<"n", 0>>} \cup ({"t"} \X TopicIds) \cup ({"c"} \X ChanIds) :
         WriterRequest(target)
    \/ WriterAcquire
    \/ \E name \in Names : WriterCreateTopic(name)
    \/ \E name \in Names : WriterDeleteTopic(name)
    \/ \E name \in Names : WriterCreateChannel(name)
    \/ \E name \in Names : WriterDeleteChannel(name)
    \/ \E c \in ClientIds : WriterAddClient(c)
    \/ \E c \in ClientIds : WriterRemoveClient(c)
    \/ WriterRelease
    \/ \E i \in TopicIds : WriterPublish(i)
    \/ \E j \in ChanIds : WriterDeliver(j)
    \/ \E j \in ChanIds : WriterFinishMessage(j)
    \/ \E i \in TopicIds : WriterPauseTopic(i)
    \/ \E j \in ChanIds : WriterPauseChannel(j)

\* ------------------------------------------------------------ GetStats
\* func (n *NSQD) GetStats(topic string, channel string): the call is made.
GetStatsCall(k, tf, cf) ==
    /\ pc[k] = "idle"
    /\ pc' = [pc EXCEPT ![k] = "rlock"]
    /\ topic' = [topic EXCEPT ![k] = tf]
    /\ channel' = [channel EXCEPT ![k] = cf]
    /\ UNCHANGED <<realTopics, topics, topicsWG, topicsMutex>>
    /\ callView' = [callView EXCEPT ![k] = topicMap]
    /\ during' = [during EXCEPT ![k] = {Membership(topicMap, topicObjs)}]
    /\ UNCHANGED <<nView, tView, cView, aggView, args, memVars>>
    /\ UNCHANGED <<brokerVars, lockVars, writerVars, ttaskVars, ctaskVars>>

\* n.RLock()
NsqdRLock(k) ==
    /\ pc[k] = "rlock"
    /\ CanRLock(nLock)
    /\ nLock' = RLocked(nLock, k)
    /\ pc' = [pc EXCEPT ![k] = "select"]
    /\ UNCHANGED <<tLock, cLock, topic, channel, realTopics, topics, topicsWG, topicsMutex>>
    /\ nView' = [nView EXCEPT ![k] = topicMap]
    /\ UNCHANGED <<callView, tView, cView, during, aggView, args, memVars>>
    /\ UNCHANGED <<brokerVars, writerVars, ttaskVars, ctaskVars>>

\* A selection that copies every topic whenever the named one exists.
SelectedTopicsAll(tf) ==
    IF tf = Empty \/ tf \in DOMAIN topicMap THEN Range(topicMap) ELSE {}

\* The topics the filter selects from n.topicMap.
SelectedTopics(tf) ==
    IF tf = Empty THEN Range(topicMap)
    ELSE IF tf \in DOMAIN topicMap THEN {topicMap[tf]}
    ELSE {}

\* SelectTopics without the n.RUnlock() of the early return.
SelectTopicsNoUnlockOnMiss(k) ==
    /\ pc[k] = "select"
    /\ realTopics' = [realTopics EXCEPT ![k] = SelectedTopics(topic[k])]
    /\ IF topic[k] # Empty /\ topic[k] \notin DOMAIN topicMap
       THEN /\ pc' = [pc EXCEPT ![k] = "done"]
            /\ topics' = [topics EXCEPT ![k] = <<>>]
            /\ UNCHANGED nLock
       ELSE /\ pc' = [pc EXCEPT ![k] = "spawn"]
            /\ nLock' = RUnlocked(nLock, k)
            /\ UNCHANGED topics
    /\ UNCHANGED <<tLock, cLock, topic, channel, topicsWG, topicsMutex>>
    /\ UNCHANGED <<brokerVars, writerVars, ttaskVars, ctaskVars, viewVars, args, memVars>>

\* SelectTopics with the broker lock kept while the topic goroutines run
\* (defer n.RUnlock() instead of the explicit unlock before the fan-out).
SelectTopicsHoldLock(k) ==
    /\ pc[k] = "select"
    /\ realTopics' = [realTopics EXCEPT ![k] = SelectedTopics(topic[k])]
    /\ IF topic[k] # Empty /\ topic[k] \notin DOMAIN topicMap
       THEN /\ pc' = [pc EXCEPT ![k] = "done"]
            /\ topics' = [topics EXCEPT ![k] = <<>>]
            /\ nLock' = RUnlocked(nLock, k)
       ELSE /\ pc' = [pc EXCEPT ![k] = "spawn"]
            /\ UNCHANGED <<topics, nLock>>
    /\ UNCHANGED <<tLock, cLock, topic, channel, topicsWG, topicsMutex>>
    /\ UNCHANGED <<brokerVars, writerVars, ttaskVars, ctaskVars, viewVars, args, memVars>>

\* Lines 148-160: copy the topic references under the lock, then n.RUnlock();
\* an absent topic returns []TopicStats{} at once.
SelectTopics(k) ==
    /\ pc[k] = "select"
    /\ realTopics' = [realTopics EXCEPT ![k] = SelectedTopics(topic[k])]
    /\ nLock' = RUnlocked(nLock, k)
    /\ IF topic[k] # Empty /\ topic[k] \notin DOMAIN topicMap
       THEN /\ pc' = [pc EXCEPT ![k] = "done"]
            /\ topics' = [topics EXCEPT ![k] = <<>>]
       ELSE /\ pc' = [pc EXCEPT ![k] = "spawn"]
            /\ UNCHANGED topics
    /\ UNCHANGED <<tLock, cLock, topic, channel, topicsWG, topicsMutex>>
    /\ UNCHANGED <<brokerVars, writerVars, ttaskVars, ctaskVars, viewVars, args, memVars>>

\* Lines 164-225: the output slice, topicsWG.Add(len(realTopics)) and one
\* goroutine per copied topic.
SpawnTopics(k) ==
    /\ pc[k] = "spawn"
    /\ topics' = [topics EXCEPT ![k] = <<>>]
    /\ topicsWG' = [topicsWG EXCEPT ![k] = Cardinality(realTopics[k])]
    /\ tpc' = [tpc EXCEPT ![k] = [i \in TopicIds |->
                 IF i \in realTopics[k] THEN "rlock" ELSE "none"]]
    /\ pc' = [pc EXCEPT ![k] = "wait"]
    /\ UNCHANGED <<topic, channel, realTopics, topicsMutex>>
    /\ UNCHANGED <<realChannels, channels, channelsWG, channelsMutex, ts>>
    /\ UNCHANGED <<brokerVars, lockVars, writerVars, ctaskVars, viewVars, args, memVars>>

\* Lines 226-230: topicsWG.Wait(), sort, return.
GetStatsReturn(k) ==
    /\ pc[k] = "wait"
    /\ topicsWG[k] = 0
    /\ topics' = [topics EXCEPT ![k] = SortTopicStats(@)]
    /\ pc' = [pc EXCEPT ![k] = "done"]
    /\ UNCHANGED <<topic, channel, realTopics, topicsWG, topicsMutex>>
    /\ UNCHANGED <<brokerVars, lockVars, writerVars, ttaskVars, ctaskVars, viewVars, args, memVars>>

\* ---- topic task (k, i): the goroutine of lines 169-224 for topic object i
\* t.RLock()
TopicRLock(k, i) ==
    /\ tpc[k][i] = "rlock"
    /\ CanRLock(tLock[i])
    /\ tLock' = [tLock EXCEPT ![i] = RLocked(@, k)]
    /\ tpc' = [tpc EXCEPT ![k][i] = "select"]
    /\ UNCHANGED <<nLock, cLock, realChannels, channels, channelsWG, channelsMutex, ts>>
    /\ tView' = [tView EXCEPT ![k][i] = [map |-> topicObjs[i].channelMap,
                                         live |-> i \in Range(topicMap)]]
    /\ UNCHANGED <<callView, nView, cView, during, aggView, args, memVars>>
    /\ UNCHANGED <<brokerVars, writerVars, callVars, ctaskVars>>

\* A copy loop that keeps only one of the channels it ranges over.
SelectedChannelsOne(i, cf) ==
    IF cf = Empty
    THEN IF topicObjs[i].channelMap = <<>> THEN {}
         ELSE {CHOOSE j \in Range(topicObjs[i].channelMap) : TRUE}
    ELSE IF cf \in DOMAIN topicObjs[i].channelMap THEN {topicObjs[i].channelMap[cf]}
    ELSE {}

\* The channels the filter selects from t.channelMap.
SelectedChannels(i, cf) ==
    IF cf = Empty THEN Range(topicObjs[i].channelMap)
    ELSE IF cf \in DOMAIN topicObjs[i].channelMap THEN {topicObjs[i].channelMap[cf]}
    ELSE {}

\* SelectChannels without the early return: a topic that lacks the filtered
\* channel goes on with no channel and contributes an empty TopicStats.
SelectChannelsEmptyOnMiss(k, i) ==
    /\ tpc[k][i] = "select"
    /\ realChannels' = [realChannels EXCEPT ![k][i] = SelectedChannels(i, channel[k])]
    /\ tLock' = [tLock EXCEPT ![i] = RUnlocked(@, k)]
    /\ tpc' = [tpc EXCEPT ![k][i] = "spawn"]
    /\ UNCHANGED topicsWG
    /\ UNCHANGED <<nLock, cLock, channels, channelsWG, channelsMutex, ts>>
    /\ UNCHANGED <<pc, topic, channel, realTopics, topics, topicsMutex>>
    /\ UNCHANGED <<brokerVars, writerVars, ctaskVars, viewVars, args, memVars>>

\* SelectChannels with the early return taken before the barrier is signalled
\* (topicsWG.Done() called at the end of the task instead of deferred).
SelectChannelsNoDone(k, i) ==
    /\ tpc[k][i] = "select"
    /\ realChannels' = [realChannels EXCEPT ![k][i] = SelectedChannels(i, channel[k])]
    /\ tLock' = [tLock EXCEPT ![i] = RUnlocked(@, k)]
    /\ IF channel[k] # Empty /\ channel[k] \notin DOMAIN topicObjs[i].channelMap
       THEN tpc' = [tpc EXCEPT ![k][i] = "done"]
       ELSE tpc' = [tpc EXCEPT ![k][i] = "spawn"]
    /\ UNCHANGED topicsWG
    /\ UNCHANGED <<nLock, cLock, channels, channelsWG, channelsMutex, ts>>
    /\ UNCHANGED <<pc, topic, channel, realTopics, topics, topicsMutex>>
    /\ UNCHANGED <<brokerVars, writerVars, ctaskVars, viewVars, args, memVars>>

\* SelectChannels with the early return taken before t.RUnlock().
SelectChannelsNoUnlockOnMiss(k, i) ==
    /\ tpc[k][i] = "select"
    /\ realChannels' = [realChannels EXCEPT ![k][i] = SelectedChannels(i, channel[k])]
    /\ IF channel[k] # Empty /\ channel[k] \notin DOMAIN topicObjs[i].channelMap
       THEN /\ tpc' = [tpc EXCEPT ![k][i] = "done"]
            /\ topicsWG' = [topicsWG EXCEPT ![k] = @ - 1]
            /\ UNCHANGED tLock
       ELSE /\ tpc' = [tpc EXCEPT ![k][i] = "spawn"]
            /\ tLock' = [tLock EXCEPT ![i] = RUnlocked(@, k)]
            /\ UNCHANGED topicsWG
    /\ UNCHANGED <<nLock, cLock, channels, channelsWG, channelsMutex, ts>>
    /\ UNCHANGED <<pc, topic, channel, realTopics, topics, topicsMutex>>
    /\ UNCHANGED <<brokerVars, writerVars, ctaskVars, viewVars, args, memVars>>

\* Lines 174-186: copy the channel references under the lock, then
\* t.RUnlock(); an absent channel ends the task (the deferred
\* topicsWG.Done() runs) without a TopicStats.
SelectChannels(k, i) ==
    /\ tpc[k][i] = "select"
    /\ realChannels' = [realChannels EXCEPT ![k][i] = SelectedChannels(i, channel[k])]
    /\ tLock' = [tLock EXCEPT ![i] = RUnlocked(@, k)]
    /\ IF channel[k] # Empty /\ channel[k] \notin DOMAIN topicObjs[i].channelMap
       THEN /\ tpc' = [tpc EXCEPT ![k][i] = "done"]
            /\ topicsWG' = [topicsWG EXCEPT ![k] = @ - 1]
       ELSE /\ tpc' = [tpc EXCEPT ![k][i] = "spawn"]
            /\ UNCHANGED topicsWG
    /\ UNCHANGED <<nLock, cLock, channels, channelsWG, channelsMutex, ts>>
    /\ UNCHANGED <<pc, topic, channel, realTopics, topics, topicsMutex>>
    /\ UNCHANGED <<brokerVars, writerVars, ctaskVars, viewVars, args, memVars>>

\* Lines 190-213: the output slice, channelsWG.Add(len(realChannels)) and
\* one goroutine per copied channel.
SpawnChannels(k, i) ==
    /\ tpc[k][i] = "spawn"
    /\ channels' = [channels EXCEPT ![k][i] = <<>>]
    /\ channelsWG' = [channelsWG EXCEPT ![k][i] = Cardinality(realChannels[k][i])]
    /\ cpc' = [cpc EXCEPT ![k] = [j \in ChanIds |->
                 IF j \in realChannels[k][i] THEN "rlock" ELSE @[j]]]
    /\ tpc' = [tpc EXCEPT ![k][i] = "wait"]
    /\ UNCHANGED <<realChannels, channelsMutex, ts, clients, cs>>
    /\ UNCHANGED <<brokerVars, lockVars, writerVars, callVars, viewVars, args, memVars>>

\* TopicBuild without channelsWG.Wait(): the TopicStats is built from whatever
\* the channel goroutines have appended so far.
TopicBuildNoWait(k, i) ==
    /\ tpc[k][i] = "wait"
    /\ channels' = [channels EXCEPT ![k][i] = SortChannelStats(@)]
    /\ ts' = [ts EXCEPT ![k][i] = NewTopicStats(i, SortChannelStats(channels[k][i]))]
    /\ tpc' = [tpc EXCEPT ![k][i] = "mlock"]
    /\ aggView' = [aggView EXCEPT ![k][i] =
                     [map |-> topicObjs[i].channelMap,
                      e2e |-> [j \in Range(topicObjs[i].channelMap) |-> chanObjs[j].e2e]]]
    /\ UNCHANGED <<callView, nView, tView, cView, during, args, memVars>>
    /\ UNCHANGED <<realChannels, channelsWG, channelsMutex>>
    /\ UNCHANGED <<brokerVars, lockVars, writerVars, callVars, ctaskVars>>

\* Lines 214-219: channelsWG.Wait(), sort, NewTopicStats.
TopicBuild(k, i) ==
    /\ tpc[k][i] = "wait"
    /\ channelsWG[k][i] = 0
    /\ channels' = [channels EXCEPT ![k][i] = SortChannelStats(@)]
    /\ ts' = [ts EXCEPT ![k][i] = NewTopicStats(i, SortChannelStats(channels[k][i]))]
    /\ tpc' = [tpc EXCEPT ![k][i] = "mlock"]
    /\ aggView' = [aggView EXCEPT ![k][i] =
                     [map |-> topicObjs[i].channelMap,
                      e2e |-> [j \in Range(topicObjs[i].channelMap) |-> chanObjs[j].e2e]]]
    /\ UNCHANGED <<callView, nView, tView, cView, during, args, memVars>>
    /\ UNCHANGED <<realChannels, channelsWG, channelsMutex>>
    /\ UNCHANGED <<brokerVars, lockVars, writerVars, callVars, ctaskVars>>

\* topicsMutex.Lock()
TopicMutexLock(k, i) ==
    /\ tpc[k][i] = "mlock"
    /\ topicsMutex[k] = 0
    /\ topicsMutex' = [topicsMutex EXCEPT ![k] = i]
    /\ tpc' = [tpc EXCEPT ![k][i] = "append"]
    /\ UNCHANGED <<pc, topic, channel, realTopics, topics, topicsWG>>
    /\ UNCHANGED <<realChannels, channels, channelsWG, channelsMutex, ts>>
    /\ UNCHANGED <<brokerVars, lockVars, writerVars, ctaskVars, viewVars, args, memVars>>

\* Lines 221-224: append, topicsMutex.Unlock(), deferred topicsWG.Done().
TopicAppend(k, i) ==
    /\ tpc[k][i] = "append"
    /\ topics' = [topics EXCEPT ![k] = Append(@, ts[k][i])]
    /\ topicsMutex' = [topicsMutex EXCEPT ![k] = 0]
    /\ topicsWG' = [topicsWG EXCEPT ![k] = @ - 1]
    /\ tpc' = [tpc EXCEPT ![k][i] = "done"]
    /\ UNCHANGED <<pc, topic, channel, realTopics>>
    /\ UNCHANGED <<realChannels, channels, channelsWG, channelsMutex, ts>>
    /\ UNCHANGED <<brokerVars, lockVars, writerVars, ctaskVars, viewVars, args, memVars>>

\* ---- channel task (k, j): the goroutine of lines 195-212 for channel object j
\* The topic task that spawned channel task (k, j).
ParentOf(k, j) == CHOOSE i \in TopicIds : j \in realChannels[k][i]

\* A channel task that looks its channel up again and gives up (signalling
\* the barrier) when it is no longer in the topic's map.
ChannelRLockSkipRemoved(k, j) ==
    /\ cpc[k][j] = "rlock"
    /\ IF j \in Range(topicObjs[ParentOf(k, j)].channelMap)
       THEN /\ CanRLock(cLock[j])
            /\ cLock' = [cLock EXCEPT ![j] = RLocked(@, k)]
            /\ cpc' = [cpc EXCEPT ![k][j] = "copy"]
            /\ UNCHANGED ttaskVars
       ELSE /\ cpc' = [cpc EXCEPT ![k][j] = "done"]
            /\ channelsWG' = [channelsWG EXCEPT ![k][ParentOf(k, j)] = @ - 1]
            /\ UNCHANGED <<cLock, tpc, realChannels, channels, channelsMutex, ts>>
    /\ cView' = [cView EXCEPT ![k][j] = [clients |-> chanObjs[j].clients,
                                         live |-> j \in Range(topicObjs[ParentOf(k, j)].channelMap)]]
    /\ UNCHANGED <<callView, nView, tView, during, aggView, args, memVars>>
    /\ UNCHANGED <<nLock, tLock, clients, cs>>
    /\ UNCHANGED <<brokerVars, writerVars, callVars>>

\* c.RLock()
ChannelRLock(k, j) ==
    /\ cpc[k][j] = "rlock"
    /\ CanRLock(cLock[j])
    /\ cLock' = [cLock EXCEPT ![j] = RLocked(@, k)]
    /\ cpc' = [cpc EXCEPT ![k][j] = "copy"]
    /\ UNCHANGED <<nLock, tLock, clients, cs>>
    /\ cView' = [cView EXCEPT ![k][j] = [clients |-> chanObjs[j].clients,
                                         live |-> j \in Range(topicObjs[ParentOf(k, j)].channelMap)]]
    /\ UNCHANGED <<callView, nView, tView, during, aggView, args, memVars>>
    /\ UNCHANGED <<brokerVars, writerVars, callVars, ttaskVars>>

\* CopyClients that reads the parent topic under t.RLock() while it holds
\* c.RLock(): the channel lock first, the topic lock second.
CopyClientsUnderTopicLock(k, j) ==
    /\ cpc[k][j] = "copy"
    /\ CanRLock(tLock[ParentOf(k, j)])
    /\ clients' = [clients EXCEPT ![k][j] = chanObjs[j].clients]
    /\ cLock' = [cLock EXCEPT ![j] = RUnlocked(@, k)]
    /\ cpc' = [cpc EXCEPT ![k][j] = "build"]
    /\ UNCHANGED <<nLock, tLock, cs>>
    /\ UNCHANGED <<brokerVars, writerVars, callVars, ttaskVars, viewVars, args, memVars>>

\* CopyClients with the c.RUnlock() deferred: the lock is still held when the
\* ChannelStats is built.
CopyClientsDeferUnlock(k, j) ==
    /\ cpc[k][j] = "copy"
    /\ clients' = [clients EXCEPT ![k][j] = chanObjs[j].clients]
    /\ cpc' = [cpc EXCEPT ![k][j] = "build"]
    /\ UNCHANGED <<nLock, tLock, cLock, cs>>
    /\ UNCHANGED <<brokerVars, writerVars, callVars, ttaskVars, viewVars, args, memVars>>

\* Lines 199-203: one ClientStats per client under the lock, then c.RUnlock().
CopyClients(k, j) ==
    /\ cpc[k][j] = "copy"
    /\ clients' = [clients EXCEPT ![k][j] = chanObjs[j].clients]
    /\ cLock' = [cLock EXCEPT ![j] = RUnlocked(@, k)]
    /\ cpc' = [cpc EXCEPT ![k][j] = "build"]
    /\ UNCHANGED <<nLock, tLock, cs>>
    /\ UNCHANGED <<brokerVars, writerVars, callVars, ttaskVars, viewVars, args, memVars>>

\* A build that swaps the message counter to zero instead of loading it.
ChannelBuildResetting(k, j) ==
    /\ cpc[k][j] = "build"
    /\ cs' = [cs EXCEPT ![k][j] = NewChannelStats(j, clients[k][j])]
    /\ chanObjs' = [chanObjs EXCEPT ![j].messageCount = 0]
    /\ cpc' = [cpc EXCEPT ![k][j] = "mlock"]
    /\ UNCHANGED <<clients, topicMap, topicObjs>>
    /\ UNCHANGED <<lockVars, writerVars, callVars, ttaskVars, viewVars, args, memVars>>

\* Line 207: cs := NewChannelStats(c, clients), outside the lock.
ChannelBuild(k, j) ==
    /\ cpc[k][j] = "build"
    /\ cs' = [cs EXCEPT ![k][j] = NewChannelStats(j, clients[k][j])]
    /\ cpc' = [cpc EXCEPT ![k][j] = "mlock"]
    /\ UNCHANGED clients
    /\ UNCHANGED <<brokerVars, lockVars, writerVars, callVars, ttaskVars, viewVars, args, memVars>>

\* An append section entered without waiting for channelsMutex.
ChannelMutexLockNoWait(k, j) ==
    /\ cpc[k][j] = "mlock"
    /\ channelsMutex' = [channelsMutex EXCEPT ![k][ParentOf(k, j)] = j]
    /\ cpc' = [cpc EXCEPT ![k][j] = "append"]
    /\ UNCHANGED <<tpc, realChannels, channels, channelsWG, ts, clients, cs>>
    /\ UNCHANGED <<brokerVars, lockVars, writerVars, callVars, viewVars, args, memVars>>

\* channelsMutex.Lock()
ChannelMutexLock(k, j) ==
    /\ cpc[k][j] = "mlock"
    /\ channelsMutex[k][ParentOf(k, j)] = 0
    /\ channelsMutex' = [channelsMutex EXCEPT ![k][ParentOf(k, j)] = j]
    /\ cpc' = [cpc EXCEPT ![k][j] = "append"]
    /\ UNCHANGED <<tpc, realChannels, channels, channelsWG, ts, clients, cs>>
    /\ UNCHANGED <<brokerVars, lockVars, writerVars, callVars, viewVars, args, memVars>>

\* ChannelAppend with channelsWG.Done() called explicitly and deferred.
ChannelAppendDoneTwice(k, j) ==
    /\ cpc[k][j] = "append"
    /\ channels' = [channels EXCEPT ![k][ParentOf(k, j)] = Append(@, cs[k][j])]
    /\ channelsMutex' = [channelsMutex EXCEPT ![k][ParentOf(k, j)] = 0]
    /\ channelsWG' = [channelsWG EXCEPT ![k][ParentOf(k, j)] = @ - 2]
    /\ cpc' = [cpc EXCEPT ![k][j] = "done"]
    /\ UNCHANGED <<tpc, realChannels, ts, clients, cs>>
    /\ UNCHANGED <<brokerVars, lockVars, writerVars, callVars, viewVars, args, memVars>>

\* Lines 209-212: append, channelsMutex.Unlock(), deferred channelsWG.Done().
ChannelAppend(k, j) ==
    /\ cpc[k][j] = "append"
    /\ channels' = [channels EXCEPT ![k][ParentOf(k, j)] = Append(@, cs[k][j])]
    /\ channelsMutex' = [channelsMutex EXCEPT ![k][ParentOf(k, j)] = 0]
    /\ channelsWG' = [channelsWG EXCEPT ![k][ParentOf(k, j)] = @ - 1]
    /\ cpc' = [cpc EXCEPT ![k][j] = "done"]
    /\ UNCHANGED <<tpc, realChannels, ts, clients, cs>>
    /\ UNCHANGED <<brokerVars, lockVars, writerVars, callVars, viewVars, args, memVars>>

\* Every step a GetStats call k takes, in any of its goroutines.
GetStats(k) ==
    \/ \E a \in args : GetStatsCall(k, a[1], a[2])
    \/ NsqdRLock(k)
    \/ SelectTopics(k)
    \/ SpawnTopics(k)
    \/ GetStatsReturn(k)
    \/ \E i \in TopicIds :
         \/ TopicRLock(k, i)
         \/ SelectChannels(k, i)
         \/ SpawnChannels(k, i)
         \/ TopicBuild(k, i)
         \/ TopicMutexLock(k, i)
         \/ TopicAppend(k, i)
    \/ \E j \in ChanIds :
         \/ ChannelRLock(k, j)
         \/ CopyClients(k, j)
         \/ ChannelBuild(k, j)
         \/ ChannelMutexLock(k, j)
         \/ ChannelAppend(k, j)

Next == Writer \/ \E k \in CallIds : GetStats(k)

Spec == Init /\ [][Next]_vars

\* Concurrent calls: every caller of CallIds runs GetStats against a broker
\* of one topic, unfiltered or filtered to the first topic and channel.
\* A writer that keeps the counters of a topic and of its channels in step:
\* one message counted on topic i and on its channel j in one atomic step.
WriterPublishTo(i, j) ==
    /\ budget > 0
    /\ i \in Range(topicMap)
    /\ j \in Range(topicObjs[i].channelMap)
    /\ topicObjs' = [topicObjs EXCEPT ![i].messageCount = @ + 1]
    /\ chanObjs' = [chanObjs EXCEPT ![j].messageCount = @ + 1]
    /\ budget' = budget - 1
    /\ UNCHANGED <<topicMap, wpc, wtarget, lockVars, callVars, ttaskVars, ctaskVars, viewVars, args, memVars>>

NextCount ==
    \/ \E i \in TopicIds : \E j \in ChanIds : WriterPublishTo(i, j)
    \/ \E k \in CallIds : GetStats(k)

\* One call without filters over one topic with one or two channels, and
\* the writer above.
CountWrites == MaxWriterOps + 1
InitCount == InitWith({1}, {1, 2}, {ClientIds}, CountWrites, {1}, {<<Empty, Empty>>})
SpecCount == InitCount /\ [][NextCount]_vars

\* ---- a writer that nests its locks top-down: the broker write lock, then
\* under it a topic's write lock, then under both a channel's write lock.
\* wtarget is <<"n", 0>>, <<"nt", i>> or <<"ntc", i, j>>: the locks taken so
\* far, the last of them the one the writer waits for or holds.
NestRequestBroker ==
    /\ wpc = "idle"
    /\ budget > 0
    /\ wpc' = "waiting"
    /\ wtarget' = <<"n", 0>>
    /\ budget' = budget - 1
    /\ nLock' = [nLock EXCEPT !.w = "waiting"]
    /\ UNCHANGED <<tLock, cLock>>
    /\ UNCHANGED <<brokerVars, callVars, ttaskVars, ctaskVars, viewVars, args, memVars>>

NestRequestTopic(i) ==
    /\ wpc = "held" /\ wtarget[1] = "n"
    /\ i \in Range(topicMap)
    /\ wpc' = "waiting"
    /\ wtarget' = <<"nt", i>>
    /\ tLock' = [tLock EXCEPT ![i].w = "waiting"]
    /\ UNCHANGED <<nLock, cLock, budget>>
    /\ UNCHANGED <<brokerVars, callVars, ttaskVars, ctaskVars, viewVars, args, memVars>>

NestRequestChannel(j) ==
    /\ wpc = "held" /\ wtarget[1] = "nt"
    /\ j \in Range(topicObjs[wtarget[2]].channelMap)
    /\ wpc' = "waiting"
    /\ wtarget' = <<"ntc", wtarget[2], j>>
    /\ cLock' = [cLock EXCEPT ![j].w = "waiting"]
    /\ UNCHANGED <<nLock, tLock, budget>>
    /\ UNCHANGED <<brokerVars, callVars, ttaskVars, ctaskVars, viewVars, args, memVars>>

\* The innermost Lock() returns once every reader of that lock has left.
NestAcquire ==
    /\ wpc = "waiting"
    /\ wpc' = "held"
    /\ IF wtarget[1] = "n"
       THEN /\ nLock.r = {}
            /\ nLock' = [nLock EXCEPT !.w = "held"]
            /\ UNCHANGED <<tLock, cLock>>
       ELSE IF wtarget[1] = "nt"
       THEN /\ tLock[wtarget[2]].r = {}
            /\ tLock' = [tLock EXCEPT ![wtarget[2]].w = "held"]
            /\ UNCHANGED <<nLock, cLock>>
       ELSE /\ cLock[wtarget[3]].r = {}
            /\ cLock' = [cLock EXCEPT ![wtarget[3]].w = "held"]
            /\ UNCHANGED <<nLock, tLock>>
    /\ UNCHANGED <<wtarget, budget>>
    /\ UNCHANGED <<brokerVars, callVars, ttaskVars, ctaskVars, viewVars, args, memVars>>

\* Unlock() of every lock taken, innermost first.
NestRelease ==
    /\ wpc = "held"
    /\ wpc' = "idle"
    /\ wtarget' = <<"none", 0>>
    /\ nLock' = [nLock EXCEPT !.w = "free"]
    /\ tLock' = IF wtarget[1] \in {"nt", "ntc"}
                THEN [tLock EXCEPT ![wtarget[2]].w = "free"] ELSE tLock
    /\ cLock' = IF wtarget[1] = "ntc"
                THEN [cLock EXCEPT ![wtarget[3]].w = "free"] ELSE cLock
    /\ UNCHANGED budget
    /\ UNCHANGED <<brokerVars, callVars, ttaskVars, ctaskVars, viewVars, args, memVars>>

NestWriter ==
    \/ NestRequestBroker
    \/ \E i \in TopicIds : NestRequestTopic(i)
    \/ \E j \in ChanIds : NestRequestChannel(j)
    \/ NestAcquire
    \/ NestRelease

NextNest == NestWriter \/ \E k \in CallIds : GetStats(k)

\* Two calls without filters over one or two topics with a channel, and the
\* nesting writer.
InitNest == InitWith({1, 2}, {1}, {ClientIds}, MaxWriterOps, CallIds, {<<Empty, Empty>>})
SpecNest == InitNest /\ [][NextNest]_vars

\* -------------------------------------------------------- getMemStats
\* sort.Sort(gcPauses): insertion sort, ascending.
RECURSIVE InsertUint64(_, _)
InsertUint64(x, s) ==
    IF s = <<>> THEN <<x>>
    ELSE IF x < s[Len(s)]
         THEN Append(InsertUint64(x, Front(s)), s[Len(s)])
         ELSE Append(s, x)

RECURSIVE SortUint64(_)
SortUint64(s) ==
    IF s = <<>> THEN <<>>
    ELSE InsertUint64(s[Len(s)], SortUint64(Front(s)))

\* percentile(perc, arr, length): nearest rank, index ceil(perc/100 * length) - 1
\* clamped into [0, length - 1]; 0 for an empty sample. Indices are 0-based
\* in the code and 1-based here.
percentile(perc, arr, length) ==
    IF length = 0 THEN 0
    ELSE LET rank == (perc * length + 99) \div 100
             index == IF rank - 1 < 0 THEN 0
                      ELSE IF rank - 1 > length - 1 THEN length - 1
                      ELSE rank - 1
         IN  arr[index + 1]

\* The copy of the pauses without the sort.
CopiedPauses(m) ==
    LET length == IF m.NumGC < Len(m.PauseNs) THEN m.NumGC ELSE Len(m.PauseNs)
    IN  SubSeq(m.PauseNs, 1, length)

\* Lines 250-256: the first min(NumGC, len(PauseNs)) entries, sorted.
SortedPauses(m) ==
    LET length == IF m.NumGC < Len(m.PauseNs) THEN m.NumGC ELSE Len(m.PauseNs)
    IN  SortUint64(SubSeq(m.PauseNs, 1, length))

\* The struct literal with the first and the third percentile exchanged.
getMemStatsSwapped(m) ==
    LET p == SortedPauses(m)
    IN  [gc_pause_usec_100 |-> percentile(95, p, Len(p)) \div 1000,
         gc_pause_usec_99  |-> percentile(99, p, Len(p)) \div 1000,
         gc_pause_usec_95  |-> percentile(100, p, Len(p)) \div 1000,
         gc_total_runs     |-> m.NumGC,
         taken             |-> TRUE]

\* Lines 258-268: the returned memStats (the heap fields are copied through
\* and left out here).
getMemStats(m) ==
    LET p == SortedPauses(m)
    IN  [gc_pause_usec_100 |-> percentile(100, p, Len(p)) \div 1000,
         gc_pause_usec_99  |-> percentile(99, p, Len(p)) \div 1000,
         gc_pause_usec_95  |-> percentile(95, p, Len(p)) \div 1000,
         gc_total_runs     |-> m.NumGC,
         taken             |-> TRUE]

\* The number of runs whose pause differs from that of the run before.
PauseChanges(h) == Cardinality({x \in 2..Len(h) : h[x] # h[x - 1]})

\* The runtime ends a GC run: the pause goes to PauseNs[NumGC % len] and
\* NumGC is incremented. A behaviour ends with its one sample.
GCRun(p) ==
    /\ ~memSample.taken
    /\ ms.NumGC < MaxGCRuns
    /\ PauseChanges(Append(pauseHist, p)) <= MaxPauseChanges
    /\ ms' = [PauseNs |-> [ms.PauseNs EXCEPT ![(ms.NumGC % BufCap) + 1] = p],
              NumGC |-> ms.NumGC + 1]
    /\ pauseHist' = Append(pauseHist, p)
    /\ UNCHANGED <<gcPauses, memSample, statsVars>>

\* getMemStats(): runtime.ReadMemStats and the computation on its copy.
SampleMemStats ==
    /\ ~memSample.taken
    /\ gcPauses' = SortedPauses(ms)
    /\ memSample' = getMemStats(ms)
    /\ UNCHANGED <<ms, pauseHist, statsVars>>

NextMem == (\E p \in PauseVals : GCRun(p)) \/ SampleMemStats

\* The runtime and the sampler alone: no broker, no GetStats call.
InitMem == InitWith({0}, {0}, {{}}, 0, {}, {})
SpecMem == InitMem /\ [][NextMem]_vars

ConcArgs == {<<Empty, Empty>>, <<InitNames[1], InitNames[1]>>}
InitConc == InitWith({1}, {0, 1}, SUBSET ClientIds, MaxWriterOps, CallIds, ConcArgs)
\* One call without filters over one or two topics and one channel, and a writer
\* that writes once more than in Spec.
InitSnap == InitWith({1, 2}, {1}, {ClientIds}, MaxWriterOps + 1, {1}, {<<Empty, Empty>>})
SpecSnap == InitSnap /\ [][Next]_vars
SpecConc == InitConc /\ [][Next]_vars

\* Liveness: every goroutine of a call keeps running (weak fairness of the
\* call's steps) and a writer that asked for a lock takes it once the
\* readers have left and releases it again.
WriterFinish ==
    \/ WriterAcquire
    \/ \E name \in Names : WriterCreateTopic(name)
    \/ \E name \in Names : WriterDeleteTopic(name)
    \/ \E name \in Names : WriterCreateChannel(name)
    \/ \E name \in Names : WriterDeleteChannel(name)
    \/ \E c \in ClientIds : WriterAddClient(c)
    \/ \E c \in ClientIds : WriterRemoveClient(c)
    \/ WriterRelease
Fairness ==
    /\ \A k \in CallIds : WF_vars(GetStats(k))
    /\ WF_vars(WriterFinish)
LiveSpec == Init /\ [][Next]_vars /\ Fairness


\* ================================================================ claims
Started == {"rlock", "select", "spawn", "wait"}

\* C1: every GetStats call that was made eventually returns (so its top-level
\* barrier and, as the barrier counts every topic task, every per-topic
\* barrier is passed), for every filter pair, every broker (also an empty
\* one) and every interleaving with a writer that releases the locks it takes.
C1_EveryCallReturns ==
    \A k \in CallIds : (pc[k] \in Started) ~> (pc[k] = "done")

\* A call has returned a non-empty result although the writer took a lock
\* while it ran.
C1_Witness ==
    /\ pc[1] = "done" /\ Len(topics[1]) > 0
    /\ budget = 0 /\ wpc = "idle"
    /\ callView[1] # topicMap


\* ---- helpers of the claims
Returned(k) == pc[k] = "done"

TopicNames(s) == {s[x].topic_name : x \in 1..Len(s)}
ChannelNames(s) == {s[x].channel_name : x \in 1..Len(s)}

NoDupTopicNames(s) ==
    \A x, y \in 1..Len(s) : x # y => s[x].topic_name # s[y].topic_name
NoDupChannelNames(s) ==
    \A x, y \in 1..Len(s) : x # y => s[x].channel_name # s[y].channel_name

\* The objects a filter selects from a map as it was seen under the lock.
ViewSelected(m, f) ==
    IF f = Empty THEN {m[n] : n \in DOMAIN m}
    ELSE {m[n] : n \in DOMAIN m \cap {f}}

\* The topic tasks of call k that contribute a TopicStats.
Contributing(k) ==
    {i \in realTopics[k] : channel[k] = Empty \/ realChannels[k][i] # {}}

\* C2: with concurrent calls and a concurrent writer, a returned sequence
\* has no two entries of one topic name, no entry lists a channel name
\* twice, every entry lists every channel its task selected (it is fully
\* built), and the entries are exactly those of the topics copied under the
\* broker lock whose channel selection did not come out empty under a filter:
\* nothing but omission separates the result from the broker.
C2_NoCorruption ==
    \A k \in CallIds : Returned(k) =>
        /\ NoDupTopicNames(topics[k])
        /\ \A x \in 1..Len(topics[k]) : NoDupChannelNames(topics[k][x].channels)
        /\ TopicNames(topics[k]) = {topicObjs[i].name : i \in Contributing(k)}
        /\ Len(topics[k]) = Cardinality(Contributing(k))
        /\ TopicNames(topics[k]) \subseteq DOMAIN nView[k]
        /\ \A x \in 1..Len(topics[k]) : \A i \in realTopics[k] :
              topicObjs[i].name = topics[k][x].topic_name =>
                /\ ChannelNames(topics[k][x].channels)
                     = {chanObjs[j].name : j \in realChannels[k][i]}
                /\ Len(topics[k][x].channels) = Cardinality(realChannels[k][i])
                /\ ChannelNames(topics[k][x].channels) \subseteq DOMAIN tView[k][i].map

\* Two calls with the same arguments have both returned an entry with a
\* channel, and the writer changed the broker between their reads.
C2_Witness ==
    /\ Returned(1) /\ Returned(2)
    /\ topic[1] = topic[2] /\ channel[1] = channel[2]
    /\ Len(topics[1]) > 0 /\ Len(topics[2]) > 0
    /\ \E x \in 1..Len(topics[1]) : Len(topics[1][x].channels) > 0
    /\ topics[1] # topics[2]

\* C3: channel membership of a topic task and client membership of a channel
\* task are those of one locked read: while the task holds the read lock the
\* map is the one seen when the lock was acquired, the copy equals that
\* view (restricted by the filter), and the returned lists are that copy.
C3_SingleLockedRead ==
    \A k \in CallIds :
        /\ \A i \in TopicIds :
              /\ k \in tLock[i].r => topicObjs[i].channelMap = tView[k][i].map
              /\ tpc[k][i] \in {"spawn", "wait", "mlock", "append", "done"} =>
                    realChannels[k][i] = ViewSelected(tView[k][i].map, channel[k])
        /\ \A j \in ChanIds :
              /\ k \in cLock[j].r => chanObjs[j].clients = cView[k][j].clients
              /\ cpc[k][j] \in {"build", "mlock", "append", "done"} =>
                    clients[k][j] = cView[k][j].clients
        /\ Returned(k) =>
              \A x \in 1..Len(topics[k]) : \A i \in realTopics[k] :
                topicObjs[i].name = topics[k][x].topic_name =>
                  /\ ChannelNames(topics[k][x].channels) =
                       {chanObjs[j].name : j \in ViewSelected(tView[k][i].map, channel[k])}
                  /\ \A y \in 1..Len(topics[k][x].channels) :
                       \A j \in ViewSelected(tView[k][i].map, channel[k]) :
                         chanObjs[j].name = topics[k][x].channels[y].channel_name =>
                           topics[k][x].channels[y].clients = cView[k][j].clients

\* A call has returned an entry whose channel list and client list are those
\* of the locked reads although the topic's channel map or the channel's
\* client set has changed since.
C3_Witness ==
    /\ Returned(1)
    /\ \E i \in realTopics[1] :
          /\ topicObjs[i].name \in TopicNames(topics[1])
          /\ tView[1][i].map # <<>>
          /\ \/ topicObjs[i].channelMap # tView[1][i].map
             \/ \E j \in realChannels[1][i] : chanObjs[j].clients # cView[1][j].clients

\* C4: a lock is held only across the membership copy of its level: the
\* caller holds the broker lock only at its copy and with no task spawned,
\* a topic task holds its topic lock only at its copy and with none of its
\* channel tasks spawned, a channel task holds its channel lock only at its
\* copy; so no goroutine of a call holds a lock while another lock of its
\* subtree is held or taken, nor while it builds or appends.
C4_OneLockAtATime ==
    \A k \in CallIds :
        /\ k \in nLock.r =>
              /\ pc[k] = "select"
              /\ \A i \in TopicIds : tpc[k][i] = "none" /\ k \notin tLock[i].r
              /\ \A j \in ChanIds : cpc[k][j] = "none" /\ k \notin cLock[j].r
        /\ \A i \in TopicIds : k \in tLock[i].r =>
              /\ tpc[k][i] = "select"
              /\ \A j \in Range(topicObjs[i].channelMap) :
                    cpc[k][j] = "none" /\ k \notin cLock[j].r
        /\ \A j \in ChanIds : k \in cLock[j].r => cpc[k][j] = "copy"

\* Two goroutines of one call hold a lock each: a channel task its channel
\* lock and the topic task of another topic its topic lock.
C4_Witness ==
    \E i \in TopicIds, j \in ChanIds :
        /\ 1 \in tLock[i].r /\ 1 \in cLock[j].r
        /\ 1 \notin nLock.r


\* C5 as stated: a topic name present in the topic map when GetStats(t, "")
\* is invoked yields exactly one TopicStats, named t.
C5_PresentAtCallTime ==
    \A k \in CallIds :
        (Returned(k) /\ topic[k] # Empty /\ channel[k] = Empty
           /\ topic[k] \in DOMAIN callView[k])
        => (Len(topics[k]) = 1 /\ topics[k][1].topic_name = topic[k])

\* C5, amended: a topic name present in the topic map when the call copies
\* the topic set under the broker read lock yields exactly one TopicStats,
\* named t, for GetStats(t, "").
C5_PresentAtLockedRead ==
    \A k \in CallIds :
        (Returned(k) /\ topic[k] # Empty /\ channel[k] = Empty
           /\ topic[k] \in DOMAIN nView[k])
        => (Len(topics[k]) = 1 /\ topics[k][1].topic_name = topic[k])

\* GetStats(t, "") has returned the one entry of t next to another topic of
\* the broker, and t has been removed from the map since the copy.
C5_Witness ==
    /\ Returned(1) /\ topic[1] # Empty /\ channel[1] = Empty
    /\ topic[1] \in DOMAIN nView[1]
    /\ Cardinality(DOMAIN nView[1]) = 2
    /\ topic[1] \notin DOMAIN topicMap
    /\ Len(topics[1]) = 1

\* C6: a call whose non-empty topic filter named no topic of the map at its
\* locked read has returned the empty sequence right after the read: the
\* broker lock is released, no goroutine was spawned, no barrier is armed and
\* no topic or channel lock is or was taken by it.
C6_UnknownTopicReturnsEmpty ==
    \A k \in CallIds :
        (pc[k] \in {"spawn", "wait", "done"} /\ topic[k] # Empty
           /\ topic[k] \notin DOMAIN nView[k])
        => /\ pc[k] = "done"
           /\ topics[k] = <<>>
           /\ k \notin nLock.r
           /\ topicsWG[k] = 0
           /\ \A i \in TopicIds : tpc[k][i] = "none" /\ k \notin tLock[i].r
           /\ \A j \in ChanIds : cpc[k][j] = "none" /\ k \notin cLock[j].r

\* A call has returned for a filter that named none of the topics the broker
\* held at its read.
C6_Witness ==
    /\ Returned(1) /\ topic[1] # Empty
    /\ nView[1] # <<>>
    /\ topic[1] \notin DOMAIN nView[1]
    /\ topics[1] = <<>>

\* The entries of topic object i in the result of call k.
EntriesOf(k, i) ==
    {x \in 1..Len(topics[k]) : topics[k][x].topic_name = topicObjs[i].name}

\* C7: in a returned result, a copied topic that lacked the filtered channel
\* at its locked read has no entry; one that held it has one entry whose
\* channel list is the one ChannelStats of that name; without a channel
\* filter every copied topic has one entry listing all its channels (also
\* none).
C7_ChannelFilter ==
    \A k \in CallIds : Returned(k) =>
        \A i \in realTopics[k] :
            /\ (channel[k] # Empty /\ channel[k] \notin DOMAIN tView[k][i].map)
                 => EntriesOf(k, i) = {}
            /\ (channel[k] # Empty /\ channel[k] \in DOMAIN tView[k][i].map)
                 => /\ Cardinality(EntriesOf(k, i)) = 1
                    /\ \A x \in EntriesOf(k, i) :
                          /\ Len(topics[k][x].channels) = 1
                          /\ topics[k][x].channels[1].channel_name = channel[k]
            /\ channel[k] = Empty
                 => /\ Cardinality(EntriesOf(k, i)) = 1
                    /\ \A x \in EntriesOf(k, i) :
                          /\ ChannelNames(topics[k][x].channels) = DOMAIN tView[k][i].map
                          /\ Len(topics[k][x].channels) = Cardinality(DOMAIN tView[k][i].map)

\* Under a channel filter two topics were copied; the one holding the channel
\* has its entry and the one lacking it has none.
C7_Witness ==
    /\ Returned(1) /\ channel[1] # Empty
    /\ Cardinality(realTopics[1]) = 2
    /\ Len(topics[1]) = 1
    /\ Len(topics[1][1].channels) = 1
    /\ \E i \in realTopics[1] : channel[1] \notin DOMAIN tView[1][i].map

\* Byte-wise order of two names: at the first position where they differ the
\* smaller byte decides, and a proper prefix comes first.
ByteLess(a, b) ==
    \E p \in 1..(Len(b)) :
        /\ \A q \in 1..(p - 1) : q <= Len(a) /\ a[q] = b[q]
        /\ (p > Len(a) \/ a[p] < b[p])

SortedChannelStats(s) ==
    \A x, y \in 1..Len(s) : x < y => ByteLess(s[x].channel_name, s[y].channel_name)

\* C8: every returned sequence ascends byte-wise by topic_name and the
\* channel list of each of its entries ascends byte-wise by channel_name,
\* whatever the order in which the goroutines appended.
C8_SortedOutput ==
    \A k \in CallIds : Returned(k) =>
        /\ \A x, y \in 1..Len(topics[k]) :
              x < y => ByteLess(topics[k][x].topic_name, topics[k][y].topic_name)
        /\ \A x \in 1..Len(topics[k]) : SortedChannelStats(topics[k][x].channels)

\* A returned result of two topics, one with two channels, whose objects were
\* allocated in the opposite of the name order.
C8_Witness ==
    /\ Returned(1) /\ Len(topics[1]) = 2
    /\ \E x \in 1..2 : Len(topics[1][x].channels) = 2
    /\ \E i, i2 \in realTopics[1] :
          i < i2 /\ ByteLess(topicObjs[i2].name, topicObjs[i].name)


\* The goroutines of call k have all finished and left nothing armed.
Joined(k) ==
    /\ topicsWG[k] = 0 /\ topicsMutex[k] = 0
    /\ \A i \in TopicIds :
          /\ tpc[k][i] \in {"none", "done"}
          /\ i \in realTopics[k] => tpc[k][i] = "done"
          /\ channelsWG[k][i] = 0 /\ channelsMutex[k][i] = 0
          /\ k \notin tLock[i].r
    /\ \A j \in ChanIds : cpc[k][j] \in {"none", "done"} /\ k \notin cLock[j].r

\* C9: a topic that was no longer in the topic map when its task took the
\* topic lock (it was removed after the copy of the topic set), and a channel
\* that was no longer in its topic's map when its task took the channel
\* lock, are collected from the retained reference all the same: the result
\* holds the entry with the membership the retained object had, every barrier
\* has been signalled and no goroutine is left behind.
C9_RemovedStillCollected ==
    \A k \in CallIds : Returned(k) =>
        /\ Joined(k)
        /\ \A i \in Contributing(k) : ~tView[k][i].live =>
              \E x \in 1..Len(topics[k]) :
                /\ topics[k][x].topic_name = topicObjs[i].name
                /\ ChannelNames(topics[k][x].channels)
                     = {chanObjs[j].name : j \in ViewSelected(tView[k][i].map, channel[k])}
        /\ \A i \in Contributing(k) : \A j \in realChannels[k][i] : ~cView[k][j].live =>
              \E x \in 1..Len(topics[k]) :
                /\ topics[k][x].topic_name = topicObjs[i].name
                /\ \E y \in 1..Len(topics[k][x].channels) :
                     /\ topics[k][x].channels[y].channel_name = chanObjs[j].name
                     /\ topics[k][x].channels[y].clients = cView[k][j].clients

\* A returned result holds the entry, with a channel, of a topic that had
\* left the topic map before its task took the topic lock.
C9_Witness ==
    /\ Returned(1)
    /\ \E i \in realTopics[1] :
          /\ ~tView[1][i].live
          /\ \E x \in 1..Len(topics[1]) :
                /\ topics[1][x].topic_name = topicObjs[i].name
                /\ Len(topics[1][x].channels) > 0

\* The same for a channel that had left its topic's map before its task
\* took the channel lock.
C9_WitnessChannel ==
    /\ Returned(1)
    /\ \E i \in realTopics[1] : \E j \in realChannels[1][i] :
          /\ ~cView[1][j].live
          /\ \E x \in 1..Len(topics[1]) :
                chanObjs[j].name \in ChannelNames(topics[1][x].channels)

\* What a step of call k may write besides its own locals: its own entry in
\* the reader sets of the read locks.
OnlyReaderEntry(l1, l2, k) == l2.w = l1.w /\ l2.r \ {k} = l1.r \ {k}

\* C10: a step of a GetStats call leaves the topic map, every channel map,
\* every client set, every counter and every pause flag as they are; it
\* writes no write-lock state, nothing of the writer and nothing of another
\* call: only the call's own slices, barriers, mutexes and its own
\* registration as a reader of the lock it copies under.
C10_PureReader ==
    [][\A k \in CallIds : GetStats(k) =>
          /\ UNCHANGED brokerVars
          /\ UNCHANGED writerVars
          /\ OnlyReaderEntry(nLock, nLock', k)
          /\ \A i \in TopicIds : OnlyReaderEntry(tLock[i], tLock'[i], k)
          /\ \A j \in ChanIds : OnlyReaderEntry(cLock[j], cLock'[j], k)
          /\ \A k2 \in CallIds \ {k} :
                /\ pc'[k2] = pc[k2] /\ topics'[k2] = topics[k2]
                /\ realTopics'[k2] = realTopics[k2]
                /\ topicsWG'[k2] = topicsWG[k2] /\ topicsMutex'[k2] = topicsMutex[k2]
                /\ tpc'[k2] = tpc[k2] /\ cpc'[k2] = cpc[k2]
                /\ realChannels'[k2] = realChannels[k2] /\ channels'[k2] = channels[k2]
                /\ channelsWG'[k2] = channelsWG[k2]
                /\ channelsMutex'[k2] = channelsMutex[k2]
                /\ ts'[k2] = ts[k2] /\ cs'[k2] = cs[k2] /\ clients'[k2] = clients[k2]
      ]_vars

\* Two calls have returned entries that report a non-zero channel counter,
\* and the counter of the channel is still what they report.
C10_Witness ==
    /\ Returned(1) /\ Returned(2)
    /\ \E x \in 1..Len(topics[1]) : \E y \in 1..Len(topics[1][x].channels) :
          /\ topics[1][x].channels[y].message_count > 0
          /\ \E j \in DOMAIN chanObjs :
                /\ chanObjs[j].name = topics[1][x].channels[y].channel_name
                /\ chanObjs[j].messageCount = topics[1][x].channels[y].message_count
    /\ Len(topics[2]) > 0


\* The membership a returned sequence reports: topic name -> channel names.
Reported(k) ==
    [n \in TopicNames(topics[k]) |->
       ChannelNames(topics[k][CHOOSE x \in 1..Len(topics[k]) :
                                 topics[k][x].topic_name = n].channels)]

\* The topic names a topic filter selects from membership m.
FilteredTopics(m, tf) ==
    IF tf = Empty THEN DOMAIN m.topicMap ELSE {tf} \cap DOMAIN m.topicMap

\* What GetStats(tf, cf) reports of a broker whose membership is m.
Restricted(m, tf, cf) ==
    LET chansOf(n) == DOMAIN m.channelMap[m.topicMap[n]]
        kept == {n \in FilteredTopics(m, tf) : cf = Empty \/ cf \in chansOf(n)}
    IN  [n \in kept |-> IF cf = Empty THEN chansOf(n) ELSE {cf}]

\* C11 as stated: the membership a returned sequence reports is, as a whole,
\* the filtered membership the broker had at one instant between the
\* invocation and the return.
C11_OneInstant ==
    \A k \in CallIds : Returned(k) =>
        \E m \in during[k] : Restricted(m, topic[k], channel[k]) = Reported(k)

\* C11, amended: every level is the membership of one instant of the call,
\* but not all levels of the same one. There is an instant whose filtered
\* topic set holds every reported topic, and for each topic of that set an
\* instant at which the channel map of that topic object, filtered, is what
\* the result reports for it (the topic is left out exactly when the
\* filtered channel was absent at that instant).
C11_OneInstantPerLevel ==
    \A k \in CallIds : Returned(k) =>
        \E m0 \in during[k] :
          /\ DOMAIN Reported(k) \subseteq FilteredTopics(m0, topic[k])
          /\ \A n \in FilteredTopics(m0, topic[k]) :
                \E m \in during[k] :
                  /\ m0.topicMap[n] \in DOMAIN m.channelMap
                  /\ LET cn == DOMAIN m.channelMap[m0.topicMap[n]]
                     IN  IF channel[k] = Empty
                         THEN n \in DOMAIN Reported(k) /\ Reported(k)[n] = cn
                         ELSE IF channel[k] \in cn
                              THEN n \in DOMAIN Reported(k) /\ Reported(k)[n] = {channel[k]}
                              ELSE n \notin DOMAIN Reported(k)

\* A call has returned two topics while the writer wrote twice, and what it
\* reports is the membership of no instant of the call.
C11_Witness ==
    /\ Returned(1)
    /\ Cardinality(during[1]) = 3
    /\ Cardinality(DOMAIN Reported(1)) = 2
    /\ \A m \in during[1] : Restricted(m, topic[1], channel[1]) # Reported(1)


\* The nearest-rank percentile of a sample in any order: the least value v
\* of the sample such that at least perc percent of the sample is <= v.
RankValue(perc, sample) ==
    IF sample = <<>> THEN 0
    ELSE LET n == Len(sample)
             atMost(v) == Cardinality({x \in 1..n : sample[x] <= v})
             enough == {v \in Range(sample) : 100 * atMost(v) >= perc * n}
         IN  CHOOSE v \in enough : \A w \in enough : v <= w

\* The pauses the runtime holds: the first min(NumGC, len) buffer entries.
HeldPauses ==
    SubSeq(ms.PauseNs, 1, IF ms.NumGC < BufCap THEN ms.NumGC ELSE BufCap)

Percents == {0, 1, 50, 95, 99, 100}

\* C12: percentile follows the nearest-rank rule on the sorted sample for
\* every percent, is 0 on the empty sample, selects 5 from [1,2,3,4,5] for
\* 100, 99 and 95; what the sampler reports for 100, 99 and 95 is the
\* nearest-rank pause of the buffer in microseconds, and 0 three times when
\* no GC has run.
C12_NearestRank ==
    /\ \A perc \in Percents :
          /\ percentile(perc, gcPauses, Len(gcPauses)) = RankValue(perc, gcPauses)
          /\ percentile(perc, SortedPauses(ms), Len(SortedPauses(ms)))
               = RankValue(perc, HeldPauses)
          /\ percentile(perc, <<>>, 0) = 0
    /\ \A perc \in {100, 99, 95} : percentile(perc, <<1, 2, 3, 4, 5>>, 5) = 5
    /\ memSample.taken =>
          /\ memSample.gc_pause_usec_100 = RankValue(100, HeldPauses) \div 1000
          /\ memSample.gc_pause_usec_99 = RankValue(99, HeldPauses) \div 1000
          /\ memSample.gc_pause_usec_95 = RankValue(95, HeldPauses) \div 1000
          /\ ms.NumGC = 0 => /\ gcPauses = <<>>
                             /\ memSample.gc_pause_usec_100 = 0
                             /\ memSample.gc_pause_usec_99 = 0
                             /\ memSample.gc_pause_usec_95 = 0

\* A sample of a full buffer whose 95th percentile is not its longest pause.
C12_Witness ==
    /\ memSample.taken
    /\ Len(gcPauses) = BufCap
    /\ memSample.gc_pause_usec_95 < memSample.gc_pause_usec_100

\* How often v occurs in s.
Occurrences(v, s) == Cardinality({x \in DOMAIN s : s[x] = v})

\* The last n entries of h.
LastOf(h, n) == SubSeq(h, Len(h) - n + 1, Len(h))

\* C17: a sample holds min(NumGC, len(PauseNs)) pauses, they are the most
\* recent pauses of the runtime, in ascending order, and every reported
\* value is the microseconds of the selected pause, rounded down.
C17_RecentSortedTruncated ==
    memSample.taken =>
        LET n == IF ms.NumGC < BufCap THEN ms.NumGC ELSE BufCap
            usec(perc) == IF perc = 100 THEN memSample.gc_pause_usec_100
                          ELSE IF perc = 99 THEN memSample.gc_pause_usec_99
                          ELSE memSample.gc_pause_usec_95
        IN  /\ Len(gcPauses) = n
            /\ Len(pauseHist) = ms.NumGC
            /\ memSample.gc_total_runs = ms.NumGC
            /\ \A v \in Range(gcPauses) \cup Range(pauseHist) :
                  Occurrences(v, gcPauses) = Occurrences(v, LastOf(pauseHist, n))
            /\ \A x \in 1..(n - 1) : gcPauses[x] <= gcPauses[x + 1]
            /\ \A perc \in {100, 99, 95} :
                  LET selected == IF n = 0 THEN 0
                                  ELSE gcPauses[percentile(perc, [x \in 1..n |-> x], n)]
                  IN  /\ 1000 * usec(perc) <= selected
                      /\ selected < 1000 * usec(perc) + 1000

\* A sample taken after the buffer wrapped around: the oldest pause is no
\* longer in it, and the longest pause is reported rounded down.
C17_Witness ==
    /\ memSample.taken
    /\ ms.NumGC > BufCap
    /\ pauseHist[1] \notin Range(gcPauses)
    /\ gcPauses[Len(gcPauses)] = 2500
    /\ memSample.gc_pause_usec_100 = 2


\* The merge of the latency results of a list of ChannelStats.
RECURSIVE MergedResults(_)
MergedResults(chans) ==
    IF chans = <<>> THEN 0
    ELSE chans[1].e2e_processing_latency + MergedResults(Tail(chans))

\* The samples of the streams in a view of a topic's channels.
RECURSIVE ViewSamples(_, _)
ViewSamples(S, e2e) ==
    IF S = {} THEN 0
    ELSE LET j == CHOOSE x \in S : TRUE
         IN  e2e[j] + ViewSamples(S \ {j}, e2e)

\* C13 as stated: the latency aggregate of every returned TopicStats is the
\* merge of the latency results of the ChannelStats in its channel list.
C13_AggregateOfCollected ==
    \A k \in CallIds : Returned(k) =>
        \A x \in 1..Len(topics[k]) :
            topics[k][x].e2e_processing_latency = MergedResults(topics[k][x].channels)

\* C13, amended: the latency aggregate of a returned TopicStats is the merge
\* of the streams of every channel that was in the topic's channel map when
\* the TopicStats was built, as the streams were then, whatever the channel
\* filter selected. It is the merge of the results in its channel list when
\* the channel filter is empty and neither the channel map nor a stream
\* changed between the copy and the build.
C13_AggregateOfTopic ==
    \A k \in CallIds : Returned(k) =>
        \A i \in Contributing(k) :
            \E x \in 1..Len(topics[k]) :
                /\ topics[k][x].topic_name = topicObjs[i].name
                /\ topics[k][x].e2e_processing_latency
                     = ViewSamples(Range(aggView[k][i].map), aggView[k][i].e2e)
                /\ (/\ channel[k] = Empty
                    /\ aggView[k][i].map = tView[k][i].map
                    /\ \A j \in realChannels[k][i] :
                          cs[k][j].e2e_processing_latency = aggView[k][i].e2e[j])
                   => topics[k][x].e2e_processing_latency
                        = MergedResults(topics[k][x].channels)

\* A call with a channel filter has returned a TopicStats that lists one
\* channel and aggregates the streams of two.
C13_Witness ==
    /\ Returned(1) /\ channel[1] # Empty
    /\ \E x \in 1..Len(topics[1]) :
          /\ Len(topics[1][x].channels) = 1
          /\ topics[1][x].e2e_processing_latency = 2
          /\ MergedResults(topics[1][x].channels) = 1


\* Topic task (k, i) holds none of the locks and mutexes of its call.
TopicTaskLockFree(k, i) ==
    /\ k \notin nLock.r
    /\ k \notin tLock[i].r
    /\ \A j \in realChannels[k][i] : k \notin cLock[j].r
    /\ channelsMutex[k][i] = 0
    /\ topicsMutex[k] # i

\* C14: the step in which a topic task builds its TopicStats is taken when
\* every channel task it spawned has appended its ChannelStats and finished,
\* the per-topic barrier is at zero and the task holds no lock; the step in
\* which a channel task builds its ChannelStats is taken when the call no
\* longer holds that channel's read lock.
C14_BuildAfterJoinOutsideLock ==
    [][\A k \in CallIds :
         /\ \A i \in TopicIds :
               (tpc[k][i] = "wait" /\ tpc'[k][i] = "mlock") =>
                 /\ channelsWG[k][i] = 0
                 /\ Len(channels[k][i]) = Cardinality(realChannels[k][i])
                 /\ \A j \in realChannels[k][i] :
                       /\ cpc[k][j] = "done"
                       /\ \E y \in 1..Len(channels[k][i]) : channels[k][i][y] = cs[k][j]
                 /\ ts'[k][i].channels = SortChannelStats(channels[k][i])
                 /\ TopicTaskLockFree(k, i)
         /\ \A j \in ChanIds :
               (cpc[k][j] = "build" /\ cpc'[k][j] = "mlock") =>
                 /\ k \notin cLock[j].r
                 /\ cs'[k][j].clients = clients[k][j]
      ]_vars

\* A topic task has built a TopicStats over two collected channels.
C14_Witness ==
    \E i \in TopicIds :
        /\ tpc[1][i] = "mlock"
        /\ Cardinality(realChannels[1][i]) = 2
        /\ Len(ts[1][i].channels) = 2


\* The channel tasks of topic task (k, i) that are inside the append.
AppendingChannels(k, i) == {j \in realChannels[k][i] : cpc[k][j] = "append"}

\* The topic tasks of call k that are inside the append.
AppendingTopics(k) == {i \in realTopics[k] : tpc[k][i] = "append"}

\* C15: at most one channel task of a topic is inside the append to the
\* topic's channel slice, and it is the holder of channelsMutex; at most one
\* topic task is inside the append to the call's topic slice, and it holds
\* topicsMutex; while a child is inside its append the parent is still
\* waiting at its barrier; a slice always holds one entry per child that has
\* completed its append, so after the join it holds one per child that
\* reached its append.
C15_ExclusiveAppends ==
    \A k \in CallIds :
        /\ Cardinality(AppendingTopics(k)) <= 1
        /\ AppendingTopics(k) # {} =>
              /\ topicsMutex[k] \in AppendingTopics(k)
              /\ pc[k] = "wait" /\ topicsWG[k] > 0
        /\ Len(topics[k]) =
              Cardinality({i \in Contributing(k) : tpc[k][i] = "done"})
        /\ Returned(k) => Len(topics[k]) = Cardinality(Contributing(k))
        /\ \A i \in realTopics[k] :
              /\ Cardinality(AppendingChannels(k, i)) <= 1
              /\ AppendingChannels(k, i) # {} =>
                    /\ channelsMutex[k][i] \in AppendingChannels(k, i)
                    /\ tpc[k][i] = "wait" /\ channelsWG[k][i] > 0
              /\ Len(channels[k][i]) =
                    Cardinality({j \in realChannels[k][i] : cpc[k][j] = "done"})
              /\ tpc[k][i] \in {"mlock", "append", "done"} =>
                    Len(channels[k][i]) = Cardinality(realChannels[k][i])

\* One channel task is inside the append while its sibling waits for the
\* mutex.
C15_Witness ==
    \E i \in realTopics[1] : \E j1, j2 \in realChannels[1][i] :
        /\ j1 # j2
        /\ cpc[1][j1] = "append"
        /\ cpc[1][j2] = "mlock"
        /\ channelsMutex[1][i] = j1


\* The sum of the message_count values of a list of ChannelStats.
RECURSIVE CountedInChannels(_)
CountedInChannels(chans) ==
    IF chans = <<>> THEN 0
    ELSE chans[1].message_count + CountedInChannels(Tail(chans))

\* The sum of the message counters of a set of channel objects.
RECURSIVE CountersOf(_)
CountersOf(S) ==
    IF S = {} THEN 0
    ELSE LET j == CHOOSE x \in S : TRUE
         IN  chanObjs[j].messageCount + CountersOf(S \ {j})

\* C16: with a writer that keeps every topic counter equal to the sum of its
\* channels' counters in every broker state, a returned TopicStats may still
\* report a message_count that differs from the sum over its ChannelStats:
\* the counters are loaded one by one, the channels' before the topic's, so
\* the topic's value is ahead by at most the writes made so far, and is
\* never behind.
C16_CountersLoadedOneByOne ==
    /\ \A i \in DOMAIN topicObjs :
          topicObjs[i].messageCount = CountersOf(Range(topicObjs[i].channelMap))
    /\ \A k \in CallIds : Returned(k) =>
          \A x \in 1..Len(topics[k]) :
              LET ahead == topics[k][x].message_count
                             - CountedInChannels(topics[k][x].channels)
              IN  0 <= ahead /\ ahead <= CountWrites - budget

\* A call has returned a TopicStats whose message_count is not the sum of
\* the message_count values of its ChannelStats, all channels of the topic
\* being listed.
C16_Witness ==
    /\ Returned(1)
    /\ \E x \in 1..Len(topics[1]) :
          /\ topics[1][x].message_count # CountedInChannels(topics[1][x].channels)
          /\ \E i \in Range(topicMap) :
                /\ topicObjs[i].name = topics[1][x].topic_name
                /\ Len(topics[1][x].channels)
                     = Cardinality(DOMAIN topicObjs[i].channelMap)


\* C18: a call that has returned, by the early return for an unknown topic
\* or at the end, holds no read lock of the broker, of a topic or of a
\* channel; a topic or channel task that has finished, by the early exit for
\* an unknown channel or at the end, no longer holds its lock; so the
\* readers a waiting writer waits for are all goroutines of calls that are
\* still under way.
C18_ReadLocksBalanced ==
    /\ \A k \in CallIds :
          /\ Returned(k) =>
                /\ k \notin nLock.r
                /\ \A i \in TopicIds : k \notin tLock[i].r
                /\ \A j \in ChanIds : k \notin cLock[j].r
          /\ pc[k] \in {"spawn", "wait"} => k \notin nLock.r
          /\ \A i \in TopicIds :
                tpc[k][i] \in {"spawn", "wait", "mlock", "append", "done"}
                  => k \notin tLock[i].r
          /\ \A j \in ChanIds :
                cpc[k][j] \in {"build", "mlock", "append", "done"} => k \notin cLock[j].r
    /\ wpc = "waiting" => Readers(wtarget) \subseteq {k \in CallIds : pc[k] \in Started}

\* A call has returned after a topic task left early for an unknown channel,
\* and the writer holds the write lock of that topic.
C18_Witness ==
    /\ Returned(1) /\ channel[1] # Empty
    /\ \E i \in realTopics[1] :
          /\ realChannels[1][i] = {}
          /\ tpc[1][i] = "done"
          /\ wpc = "held" /\ wtarget = <<"t", i>>


\* C19: with a writer that takes the broker, topic and channel write locks
\* nested top-down and read-write locks on which a waiting writer keeps new
\* readers out, no reachable state is a deadlock: whenever a call is under
\* way or the writer is inside its locks, a goroutine of some call or the
\* writer can take a step.
C19_NoDeadlock ==
    ((\E k \in CallIds : pc[k] \in Started) \/ wpc # "idle")
        => \/ wpc # "idle" /\ ENABLED NestWriter
           \/ \E k \in CallIds : pc[k] \in Started /\ ENABLED GetStats(k)

\* The writer holds the broker and a topic write lock and waits for a
\* channel's, which a channel task holds for reading, while the other call
\* waits for the broker lock.
C19_Witness ==
    /\ wpc = "waiting" /\ wtarget[1] = "ntc"
    /\ cLock[wtarget[3]].r # {}
    /\ \E k \in CallIds : pc[k] = "rlock"


\* The topic tasks of call k that finish in this step.
FinishingTopics(k) == {i \in TopicIds : tpc[k][i] # "done" /\ tpc'[k][i] = "done"}

\* The channel tasks of topic task (k, i) that finish in this step.
FinishingChannels(k, i) ==
    {j \in realChannels[k][i] : cpc[k][j] # "done" /\ cpc'[k][j] = "done"}

\* C20: topicsWG is set to the number of copied topics when the topic tasks
\* are spawned and goes down by one exactly in the step in which a topic
\* task finishes, the early exit for an unknown channel included; each
\* channelsWG is set to the number of copied channels and goes down by one
\* exactly in the step in which a channel task finishes; so while a parent
\* waits its counter is the number of its unfinished children, no counter is
\* ever negative, and a wait is passed only at zero.
C20_BarrierSignalledOncePerTask ==
    [][\A k \in CallIds :
         /\ topicsWG[k] >= 0 /\ topicsWG'[k] >= 0
         /\ (pc[k] = "spawn" /\ pc'[k] = "wait")
               => topicsWG'[k] = Cardinality(realTopics[k])
         /\ (pc[k] = "wait" /\ pc'[k] = "wait")
               => /\ topicsWG'[k] = topicsWG[k] - Cardinality(FinishingTopics(k))
                  /\ Cardinality(FinishingTopics(k)) <= 1
         /\ pc'[k] = "wait"
               => topicsWG'[k] =
                    Cardinality({i \in realTopics'[k] : tpc'[k][i] # "done"})
         /\ (pc[k] = "wait" /\ pc'[k] = "done") => topicsWG[k] = 0
         /\ \A i \in TopicIds :
               /\ channelsWG[k][i] >= 0 /\ channelsWG'[k][i] >= 0
               /\ (tpc[k][i] = "spawn" /\ tpc'[k][i] = "wait")
                     => channelsWG'[k][i] = Cardinality(realChannels[k][i])
               /\ (tpc[k][i] = "wait" /\ tpc'[k][i] = "wait")
                     => /\ channelsWG'[k][i]
                            = channelsWG[k][i] - Cardinality(FinishingChannels(k, i))
                        /\ Cardinality(FinishingChannels(k, i)) <= 1
               /\ tpc'[k][i] = "wait"
                     => channelsWG'[k][i] =
                          Cardinality({j \in realChannels'[k][i] : cpc'[k][j] # "done"})
               /\ (tpc[k][i] = "wait" /\ tpc'[k][i] = "mlock") => channelsWG[k][i] = 0
      ]_vars

\* Of two topic tasks one has left early for an unknown channel and has
\* signalled the barrier, which now counts the other.
C20_Witness ==
    /\ pc[1] = "wait" /\ channel[1] # Empty
    /\ Cardinality(realTopics[1]) = 2
    /\ topicsWG[1] = 1
    /\ \E i \in realTopics[1] :
          /\ tpc[1][i] = "done"
          /\ realChannels[1][i] = {}
          /\ tView[1][i].map # <<>>

====
